---- MODULE Spec2Model ----
(***************************************************************************)
(* POST /api/recommendations of the recommendation service, as one request *)
(* running against the row store and the external capabilities.            *)
(*                                                                         *)
(* Three variants of the handler exist in the repository:                  *)
(*   "similarity"  src/server.js             (embedding ranking, with the  *)
(*                                            generative fallback)         *)
(*   "generative"  src/unnamed/part_001:338  (generative only)             *)
(*   "discovery"   src/unnamed/part_000      (external discovery service)  *)
(*                                                                         *)
(* An action is one external call completing with one of its outcomes,     *)
(* followed by the synchronous code that runs up to the next external      *)
(* call.  The store client reports failures in the `error` field of its    *)
(* result and does not throw; the model capabilities and fetch throw.      *)
(***************************************************************************)
EXTENDS Integers, Sequences, FiniteSets, TLC

VARIABLES
    variant,          \* which handler serves the request
    links,            \* store: the links table
    recommendations,  \* store: the recommendations table
    userId,           \* req.body.userId
    pc,               \* position of the handler
    userLinks,        \* local: result of the saved-items read
    userEmbedding,    \* local: embedding of the style text
    allLinks,         \* local: result of the corpus read
    recs,             \* local: recommendations.recommendations
    genFrom,          \* where generateOpenAIRecommendations was called from
    genOutput,        \* last outcome of the generate call
    flask,            \* locals: first discovery response, and the retry's
    insertResult,     \* outcome of the insert into recommendations
    sent,             \* responses written to res
    calls,            \* external calls made, in order
    caught,           \* message of the error the catch block of the handler got
    summary,          \* the items of the style summary of the last embed / generate call
    rawPrice,         \* product.price given to the price mapping
    cleaned,          \* results of the successive applications of the mapping
    reqBody,          \* req.body of POST /api/generate-embedding
    updateResult,     \* outcome of the update of the links row
    ingest,           \* the requests of POST /api/ingest-link and their locals
    queryVec,         \* cosineSimilarity taken alone: the query vector
    itemVecs,         \* the embeddings of the items to rank
    selfScore,        \* cosineSimilarity(queryVec, queryVec), once computed
    ranking           \* the items with their scores, once sorted

(* The variables of the other endpoints *)
endpointVars == <<reqBody, updateResult, ingest>>

(* The variables of the price mapping taken alone and of the other         *)
(* endpoints, which POST /api/recommendations leaves alone                 *)
cosineVars == <<queryVec, itemVecs, selfScore, ranking>>
unitVars == <<rawPrice, cleaned, endpointVars, cosineVars>>

vars == <<variant, links, recommendations, userId, pc, userLinks, userEmbedding,
          allLinks, recs, genFrom, genOutput, flask, insertResult, sent, calls,
          caught, summary, unitVars>>

----------------------------------------------------------------------------
(* Bounds of the model *)

MaxLinks == 2     \* rows of an enumerated links table
MaxBulk == 9      \* rows of a bulk links table (more than the top-8 slice)
MaxItems == 2     \* entries of an enumerated generated / discovered list
MaxLong == 9      \* entries of a long generated / discovered list

(* Program constants *)

TopK == 8                \* .slice(0, 8)
CorpusLimit == 200       \* .limit(200) of the corpus read
FallbackLinksLimit == 5  \* .limit(5) of the catch-block read
SummaryLimit == 10       \* .slice(0, 10) of the items given to the generate call
DiscoveryLinksLimit == 20   \* .limit(20) of the saved-items read
MaxBrands == 3              \* .slice(0, 3) of the distinct brands

----------------------------------------------------------------------------
(* JavaScript values *)

NULL == "<null>"                      \* null / undefined in a string field
Truthy(s) == s # NULL /\ s # ""       \* a string used as a condition
Or(a, b) == IF Truthy(a) THEN a ELSE b   \* a || b
NoEmbedding == <<>>                   \* SQL NULL in the embedding column

Min(a, b) == IF a < b THEN a ELSE b
Slice(s, n) == SubSeq(s, 1, Min(n, Len(s)))     \* s.slice(0, n), .limit(n)

(* A store result { data, error }: rows, no data, or an error (no data). *)
Data(rows) == [error |-> FALSE, null |-> FALSE, rows |-> rows]
NoData == [error |-> FALSE, null |-> TRUE, rows |-> <<>>]
Failed == [error |-> TRUE, null |-> TRUE, rows |-> <<>>]
StoreResults(rows) == {Data(rows), NoData, Failed}

(* A faulty Empty: the length of the data is not looked at. *)
EmptyNullOnly(d) == d.null

(* !data || data.length === 0 *)
Empty(d) == d.null \/ Len(d.rows) = 0

(* error.message as a sequence of words; NoMessage when it has none. *)
NoMessage == <<>>
Includes(message, word) == \E i \in 1..Len(message) : message[i] = word

----------------------------------------------------------------------------
(* The data the request can meet.  Prices are sequences of characters and  *)
(* thumbnails sequences of URL parts, so that the character filter and the *)
(* substring tests can be computed; the empty sequence is null or ''.      *)

Users == {"u1", "u2"}
UserIds == {NULL, "", "u1"}            \* req.body.userId: missing, '', a user

NoText == <<>>
Present(t) == Len(t) > 0               \* a price or thumbnail as a condition

GoodLink == [url |-> "https://shop.test/coat", title |-> "Coat", brand |-> "Acme",
             price |-> <<"1", "2", "0">>, description |-> "wool",
             thumbnail |-> <<"https://", "img.test", "/coat.jpg">>,
             embedding |-> <<1, 0>>]
BareLink == [url |-> "", title |-> NULL, brand |-> NULL,
             price |-> NoText, description |-> NULL,
             thumbnail |-> <<"http://", "example.com", "/x.jpg">>,
             embedding |-> <<1, 1>>]
PlainLink == [url |-> "https://shop.test/hat", title |-> "Hat", brand |-> "Brio",
              price |-> <<"3", "5">>, description |-> NULL,
              thumbnail |-> NoText,
              embedding |-> NoEmbedding]
(* A link whose embedding points away from GoodLink, and one whose          *)
(* embedding column holds the zero vector.                                 *)
OppositeLink == [url |-> "https://shop.test/vest", title |-> "Vest", brand |-> "Acme",
                 price |-> <<"6", "0">>, description |-> NULL,
                 thumbnail |-> NoText,
                 embedding |-> <<-1, 0>>]
ZeroLink == [url |-> "https://shop.test/belt", title |-> "Belt", brand |-> NULL,
             price |-> NoText, description |-> NULL,
             thumbnail |-> NoText,
             embedding |-> <<0, 0>>]
LinkShapes == {GoodLink, BareLink, PlainLink, OppositeLink, ZeroLink}

LinkRow(id, user, shape) ==
    [id |-> id, user_id |-> user, url |-> shape.url, title |-> shape.title,
     brand |-> shape.brand, price |-> shape.price,
     description |-> shape.description, thumbnail |-> shape.thumbnail,
     embedding |-> shape.embedding]

(* Enumerated tables, and bulk tables: one saved item of u1 followed by n  *)
(* embedded items of u2, more than the top-8 slice keeps, whose shapes     *)
(* repeat a cycle and whose urls, when they have one, are all different.   *)
SmallTables ==
    UNION {{[i \in 1..n |-> LinkRow(i, f[i][1], f[i][2])] :
              f \in [1..n -> Users \X LinkShapes]} : n \in 0..MaxLinks}
BulkCycles == {<<GoodLink, BareLink>>, <<GoodLink, ZeroLink, OppositeLink, ZeroLink>>}
BulkTable(n, cycle) ==
    [i \in 1..(n + 1) |->
        IF i = 1 THEN LinkRow(1, "u1", GoodLink)
        ELSE LET row == LinkRow(i, "u2", cycle[((i - 2) % Len(cycle)) + 1])
             IN  [row EXCEPT !.url = IF Truthy(@) THEN @ \o "?item=" \o ToString(i)
                                     ELSE @]]
(* A table in which u1 has saved more items than a summary for the         *)
(* generate call takes, and u2 one embedded item                           *)
ManySavedTable ==
    [i \in 1..(SummaryLimit + 2) |->
        IF i = SummaryLimit + 2 THEN LinkRow(i, "u2", GoodLink)
        ELSE [LinkRow(i, "u1", GoodLink) EXCEPT !.url = @ \o "?item=" \o ToString(i)]]

(* A table with more embedded items of u2 than the corpus read loads *)
OverLimitTable == BulkTable(CorpusLimit + 1, <<GoodLink, BareLink>>)
LinksTables ==
    SmallTables \cup {BulkTable(n, c) : n \in (TopK + 1)..MaxBulk, c \in BulkCycles}
    \cup {OverLimitTable, ManySavedTable}

(* Entries of the recommendations array the model generates. *)
FullAi == [title |-> "Scarf", brand |-> "Nord", price |-> <<"4", "5">>,
           reason |-> "Matches the coat", search_query |-> "nord scarf"]
BlankAi == [title |-> NULL, brand |-> NULL, price |-> NoText,
            reason |-> NULL, search_query |-> NULL]
AiShapes == {FullAi, BlankAi}

(* Entries of the results array of the discovery service. *)
FullProduct == [link |-> "https://shop.test/boots", product_link |-> NULL,
                title |-> "Boots", source |-> "ShopTest", brand |-> NULL,
                price |-> <<"$", "8", "9", ".", "9", "9">>,
                thumbnail |-> <<"https://", "img.test", "/boots.jpg">>]
AltProduct == [link |-> NULL, product_link |-> "https://alt.test/p",
               title |-> NULL, source |-> NULL, brand |-> "Brio",
               price |-> NoText,
               thumbnail |-> <<"http://", "example.com", "/x.jpg">>]
NoLinkProduct == [link |-> NULL, product_link |-> NULL,
                  title |-> "Ghost", source |-> NULL, brand |-> NULL,
                  price |-> <<"f", "r", "e", "e">>,
                  thumbnail |-> <<"https://", "cdn.test", "/", "1234567", ".png">>]
ProductShapes == {FullProduct, AltProduct, NoLinkProduct}

(* Lists over a set of shapes: every list of at most MaxItems entries, and *)
(* long lists of alternating entries.                                      *)
ShortLists(S) == UNION {[1..n -> S] : n \in 0..MaxItems}
LongLists(S) ==
    {[i \in 1..n |-> IF i % 2 = 1 THEN a ELSE b] :
        n \in (TopK + 1)..MaxLong, a \in S, b \in S}
Lists(S) == ShortLists(S) \cup LongLists(S)

(* Messages of the errors the capabilities and the parsers throw. *)
IncorrectApiKey == <<"401", "Incorrect", "API", "key">>
ApiMessages == {NoMessage, IncorrectApiKey}
(* generateEmbedding: the TypeError of response.data[0].embedding when the *)
(* response has no data, and the refusal of the embedding model, whose     *)
(* message names the model 'text-embedding-3-small'                        *)
UndefinedEmbedding ==
    <<"Cannot", "read", "properties", "of", "undefined", "(reading '", "embedding", "')">>
ModelAccessDenied ==
    <<"403", "Project", "does", "not", "have", "access", "to", "model", "text-",
      "embedding", "-3-small">>
EmbedMessages == ApiMessages \cup {UndefinedEmbedding, ModelAccessDenied}
(* No error has reached the catch block. *)
NotCaught == <<"<not caught>">>
(* JSON.parse quotes the text it could not parse *)
SyntaxMessages == {<<"Unexpected", "token", "<">>,
                   <<"Unexpected", "token", "embedding", "is", "not", "JSON">>}

(* Outcomes of openai.chat.completions.create and of the JSON.parse of its  *)
(* content: the call throws; the content is not JSON; the object has no    *)
(* recommendations field; it has a recommendations array.                  *)
GenOutcome(kind, message, list) == [kind |-> kind, message |-> message, list |-> list]
GenOutcomes ==
    {GenOutcome("throw", m, <<>>) : m \in ApiMessages}
    \cup {GenOutcome("badJson", m, <<>>) : m \in SyntaxMessages}
    \cup {GenOutcome("noField", NoMessage, <<>>)}
    \cup {GenOutcome("list", NoMessage, l) : l \in Lists(AiShapes)}
NoGen == GenOutcome("none", NoMessage, <<>>)

(* Outcomes of fetch(.../discover): it throws, or a response with a status *)
(* and a body that is unreadable, an object without results, or results.   *)
Statuses == {200, 400, 500}
Ok(status) == status >= 200 /\ status <= 299      \* response.ok
FetchOutcome(kind, status, body, list) ==
    [kind |-> kind, status |-> status, body |-> body, list |-> list]
FetchOutcomes ==
    {FetchOutcome("throw", 0, "none", <<>>)}
    \cup {FetchOutcome("response", st, b, <<>>) :
            st \in Statuses, b \in {"unreadable", "noResults"}}
    \cup {FetchOutcome("response", st, "results", l) :
            st \in {200}, l \in Lists(ProductShapes)}
NoRetry == [status |-> 0, body |-> "none", list |-> <<>>]
NoFlask == [status |-> 0, bodyUsed |-> FALSE, body |-> "none", list |-> <<>>,
            contextUrl |-> NULL, retry |-> NoRetry]

----------------------------------------------------------------------------
(* Store queries *)

(* A faulty InsertRows: the rows replace the content of the table. *)
ReplaceRows(table, rows) == rows

(* .from('recommendations').insert(recsToInsert) *)
InsertRows(table, rows) == table \o rows

(* .from('links').select(...).eq('user_id', userId)[.limit(20)] *)
SavedItems(table, uid, v) ==
    LET own == SelectSeq(table, LAMBDA r : r.user_id = uid)
    IN  IF v = "similarity" THEN own ELSE Slice(own, DiscoveryLinksLimit)

(* A faulty Corpus: the user's own rows are not left out. *)
CorpusWithOwn(table, uid) ==
    Slice(SelectSeq(table, LAMBDA r : r.embedding # NoEmbedding), CorpusLimit)

(* .neq('user_id', userId).not('embedding', 'is', null).limit(200) *)
Corpus(table, uid) ==
    Slice(SelectSeq(table, LAMBDA r : r.user_id # uid /\ r.embedding # NoEmbedding),
          CorpusLimit)

(* .eq('user_id', req.body.userId).limit(5) of the catch block *)
FallbackItems(table, uid) ==
    Slice(SelectSeq(table, LAMBDA r : r.user_id = uid), FallbackLinksLimit)

----------------------------------------------------------------------------
(* Similarity ranking.  A score dot / (sqrt(a2) * sqrt(b2)) is kept as the *)
(* triple of its integer parts; it is NaN (0 / 0) when a2 * b2 = 0.        *)

RECURSIVE SumProducts(_, _, _)
SumProducts(a, b, n) == IF n = 0 THEN 0 ELSE SumProducts(a, b, n - 1) + a[n] * b[n]

cosineSimilarity(vecA, vecB) ==
    [dot |-> SumProducts(vecA, vecB, Len(vecA)),
     a2 |-> SumProducts(vecA, vecA, Len(vecA)),
     b2 |-> SumProducts(vecB, vecB, Len(vecB))]

IsNaN(s) == s.a2 * s.b2 = 0
Abs(x) == IF x < 0 THEN -x ELSE x
(* s < t for two scores that are numbers *)
ScoreLess(s, t) ==
    s.dot * Abs(s.dot) * (t.a2 * t.b2) < t.dot * Abs(t.dot) * (s.a2 * s.b2)

(* (a, b) => b.similarity - a.similarity, as its sign; NaN counts as 0 *)
Compare(a, b) ==
    IF IsNaN(a.similarity) \/ IsNaN(b.similarity) THEN 0
    ELSE IF ScoreLess(a.similarity, b.similarity) THEN 1
    ELSE IF ScoreLess(b.similarity, a.similarity) THEN -1
    ELSE 0

(* Array.prototype.sort.  The elements are inserted in turn; an element    *)
(* goes after one that the comparator does not put behind it and before    *)
(* one that the comparator puts behind it.  When the comparator is a       *)
(* consistent order there is one such place and the sort is the stable     *)
(* sort; when NaN scores make it inconsistent the order of the result is   *)
(* implementation-defined, and every such place is an outcome.             *)
InsertSorted(sorted, x) ==
    LET places == {k \in 0..Len(sorted) :
                     /\ k = 0 \/ Compare(sorted[k], x) <= 0
                     /\ k = Len(sorted) \/ Compare(sorted[k + 1], x) > 0}
    IN  {SubSeq(sorted, 1, k) \o <<x>> \o SubSeq(sorted, k + 1, Len(sorted)) :
            k \in places}
(* The outcomes of inserting s[lo], ..., s[hi] in turn into sorted *)
RECURSIVE SortRange(_, _, _, _)
SortRange(sorted, s, lo, hi) ==
    IF lo > hi THEN {sorted}
    ELSE IF lo = hi THEN InsertSorted(sorted, s[lo])
    ELSE LET mid == (lo + hi) \div 2
         IN  UNION {SortRange(half, s, mid + 1, hi) : half \in SortRange(sorted, s, lo, mid)}
Sort(s) == SortRange(<<>>, s, 1, Len(s))

(* A * sqrt(d) <= B over the integers *)
LeSqrt(A, B, d) ==
    IF A <= 0 /\ B >= 0 THEN TRUE
    ELSE IF A > 0 /\ B < 0 THEN FALSE
    ELSE IF A > 0 THEN A * A * d <= B * B
    ELSE A * A * d >= B * B

(* Math.round(similarity * 100) as text *)
RoundPercent(s) ==
    IF IsNaN(s) THEN "NaN"
    ELSE ToString(CHOOSE n \in -100..100 :
                    /\ LeSqrt(2 * n - 1, 200 * s.dot, s.a2 * s.b2)
                    /\ ~LeSqrt(2 * n + 1, 200 * s.dot, s.a2 * s.b2))

(* allLinks.map(item => ({ ...item, similarity })) *)
ItemsWithSimilarity(corpus, query) ==
    [i \in 1..Len(corpus) |->
        [item |-> corpus[i],
         similarity |-> cosineSimilarity(query, corpus[i].embedding)]]

(* .sort((a, b) => b.similarity - a.similarity).slice(0, 8) *)
TopRecommendations(corpus, query) ==
    {Slice(sorted, TopK) : sorted \in Sort(ItemsWithSimilarity(corpus, query))}

----------------------------------------------------------------------------
(* Formatting of the returned records and of the inserted rows *)

JsString(s) == IF s = NULL THEN "undefined" ELSE s     \* `${s}`
Zero == <<"0">>

(* server.js: topRecommendations.map(item => ({ url: item.url, ... })) *)
FormatSimilar(top) ==
    [i \in 1..Len(top) |-> LET t == top[i] IN
        [url |-> t.item.url, title |-> t.item.title, brand |-> t.item.brand,
         price |-> t.item.price, image_url |-> t.item.thumbnail,
         reason |-> RoundPercent(t.similarity) \o "% style match",
         similarity_score |-> t.similarity]]

(* server.js: recsToInsert of the similarity path *)
SimilarRow(rec, uid) ==
    [user_id |-> uid, url |-> Or(rec.url, ""), title |-> Or(rec.title, "Unknown"),
     brand |-> Or(rec.brand, "Unknown"),
     price |-> IF Present(rec.price) THEN rec.price ELSE Zero,
     image_url |-> rec.image_url, reason |-> rec.reason,
     feedback |-> NULL, is_saved |-> FALSE]

(* The row of a record that is inserted as it is *)
PlainRow(rec, uid) ==
    [user_id |-> uid, url |-> rec.url, title |-> rec.title, brand |-> rec.brand,
     price |-> rec.price, image_url |-> rec.image_url, reason |-> rec.reason,
     feedback |-> NULL, is_saved |-> FALSE]

(* generateOpenAIRecommendations: (recommendations || []).slice(0, 8).map(...) *)
FormatGenerated(list) ==
    [i \in 1..Len(Slice(list, TopK)) |-> LET rec == list[i] IN
        [url |-> "https://www.google.com/search?q=" \o JsString(rec.brand)
                    \o "%20" \o JsString(rec.title) \o "%20buy",
         title |-> Or(rec.title, "Unknown Product"),
         brand |-> Or(rec.brand, "Unknown Brand"),
         price |-> IF Present(rec.price) THEN rec.price ELSE Zero,
         image_url |-> NoText,
         reason |-> Or(rec.reason, "Matches your style")]]

(* part_001, generative-only variant: (recommendations || []).map(...) *)
FormatGenerativeOnly(list) ==
    [i \in 1..Len(list) |-> LET rec == list[i] IN
        [url |-> "", title |-> rec.title, brand |-> rec.brand, price |-> rec.price,
         image_url |-> NoText, reason |-> rec.reason,
         search_query |-> Or(rec.search_query,
                             JsString(rec.brand) \o " " \o JsString(rec.title))]]

(* part_001, generative-only variant: url: rec.url || rec.search_query *)
GenerativeOnlyRow(rec, uid) ==
    [PlainRow(rec, uid) EXCEPT !.url = Or(rec.url, rec.search_query)]

(* part_000: String(price).replace(/[^0-9.]/g, '') *)
PriceChars == {"0", "1", "2", "3", "4", "5", "6", "7", "8", "9", "."}
Sanitize(price) == SelectSeq(price, LAMBDA c : c \in PriceChars)

(* part_000: price: product.price ? String(product.price).replace(...) : '0' *)
CleanPrice(p) == IF Present(p) THEN Sanitize(p) ELSE Zero

(* part_000: thumbnail.includes(part) *)
HasPart(thumbnail, part) == \E i \in 1..Len(thumbnail) : thumbnail[i] = part

(* part_000: [...new Set(links.map(l => l.brand).filter(Boolean))].slice(0, 3) *)
RECURSIVE Distinct(_, _)
Distinct(s, n) ==
    IF n = 0 THEN <<>>
    ELSE LET before == Distinct(s, n - 1)
         IN  IF \E i \in 1..Len(before) : before[i] = s[n] THEN before
             ELSE Append(before, s[n])
UserBrands(saved) ==
    LET brands == SelectSeq([i \in 1..Len(saved) |-> saved[i].brand], Truthy)
    IN  Slice(Distinct(brands, Len(brands)), MaxBrands)

RECURSIVE Join(_, _, _)
Join(s, sep, n) ==
    IF n = 0 THEN "" ELSE IF n = 1 THEN s[1] ELSE Join(s, sep, n - 1) \o sep \o s[n]

(* part_000: (searchResults.results || []).slice(0, 8).map(...).filter(...) *)
FormatDiscovered(list, saved) ==
    LET userBrands == UserBrands(saved)
        mapped == [i \in 1..Len(Slice(list, TopK)) |-> LET product == list[i] IN
            [url |-> Or(product.link, Or(product.product_link, "")),
             title |-> Or(product.title, "Unknown Product"),
             brand |-> Or(product.source, Or(product.brand, "Unknown Brand")),
             price |-> CleanPrice(product.price),
             image_url |-> IF /\ Present(product.thumbnail)
                              /\ ~HasPart(product.thumbnail, "1234567")
                              /\ ~HasPart(product.thumbnail, "example.com")
                           THEN product.thumbnail ELSE NoText,
             reason |-> IF Len(userBrands) > 0
                        THEN "Based on your interest in "
                                \o Join(userBrands, ", ", Len(userBrands))
                        ELSE "Based on your saved collection"]]
    IN  SelectSeq(mapped, LAMBDA rec : Truthy(rec.url) /\ Truthy(rec.title))

(* recsToInsert of the handler that formatted the records *)
RowsToInsert(list, uid, v) ==
    [i \in 1..Len(list) |->
        IF v = "similarity" THEN SimilarRow(list[i], uid)
        ELSE IF v = "generative" THEN GenerativeOnlyRow(list[i], uid)
        ELSE PlainRow(list[i], uid)]

----------------------------------------------------------------------------
(* Responses *)

ErrorBody(error) ==
    [kind |-> "error", error |-> error, hasDetails |-> FALSE, details |-> NoMessage,
     recommendations |-> <<>>]
ErrorDetails(error, message) ==
    [kind |-> "error", error |-> error, hasDetails |-> message # NoMessage,
     details |-> message, recommendations |-> <<>>]
RecsBody(list) ==
    [kind |-> "recs", error |-> NULL, hasDetails |-> FALSE, details |-> NoMessage,
     recommendations |-> list]
Response(status, body) == [status |-> status, body |-> body]

(* A faulty Reply: the return is missing and the handler goes on. *)
ReplyAndGoOn(status, body) ==
    /\ sent' = Append(sent, Response(status, body))
    /\ pc' = pc

(* res.status(status).json(body), after which the handler returns *)
Reply(status, body) ==
    /\ sent' = Append(sent, Response(status, body))
    /\ pc' = "done"

Variants == {"similarity", "generative", "discovery"}
QueryVectors == {<<1, 0>>, <<0, 1>>}        \* results of embed(text)
NoVector == <<>>

(* The handler before its first statement, with an empty recommendations   *)
(* table                                                                   *)
HandlerStart ==
    /\ recommendations = <<>>
    /\ pc = "start"
    /\ userLinks = NoData
    /\ userEmbedding = NoVector
    /\ allLinks = NoData
    /\ recs = <<>>
    /\ genFrom = "none"
    /\ genOutput = NoGen
    /\ flask = NoFlask
    /\ insertResult = "none"
    /\ sent = <<>>
    /\ calls = <<>>
    /\ caught = NotCaught
    /\ summary = <<>>

(* cosineSimilarity is not being looked at on its own. *)
NoScore == [dot |-> 0, a2 |-> 0, b2 |-> 0]
CosineIdle ==
    queryVec = NoVector /\ itemVecs = <<>> /\ selfScore = NoScore /\ ranking = <<>>

(* No request of another endpoint is running. *)
NoId == 0                              \* req.body.linkId is missing
NoBody == [linkId |-> NoId, title |-> NoText, brand |-> NoText, description |-> NoText]
EndpointsIdle ==
    /\ reqBody = NoBody
    /\ updateResult = "none"
    /\ ingest = <<>>

Init ==
    /\ variant \in Variants
    /\ links \in LinksTables
    /\ userId \in UserIds
    /\ HandlerStart
    /\ rawPrice = NoText
    /\ cleaned = <<>>
    /\ EndpointsIdle
    /\ CosineIdle

(* A faulty MissingUserId: only an absent userId is refused. *)
MissingUserIdUndefinedOnly(uid) == uid = NULL

(* if (!userId) *)
MissingUserId(uid) == ~Truthy(uid)

(* All variants: const { userId } = req.body; if (!userId) return 400 *)
ReceiveRequest ==
    /\ pc = "start"
    /\ IF MissingUserId(userId)
       THEN Reply(400, ErrorBody("User ID is required"))
       ELSE pc' = "fetchLinks" /\ UNCHANGED sent
    /\ UNCHANGED <<unitVars, summary, variant, links, recommendations, userId, userLinks, userEmbedding,
                   allLinks, recs, genFrom, genOutput, flask, insertResult, calls,
                   caught>>

(* The response to a failed saved-items read *)
FetchFailed(v) ==
    IF v = "similarity" THEN ErrorBody("Failed to fetch links")
    ELSE ErrorDetails("Failed to fetch links", <<"store", "error">>)

(* The step that follows a non-empty saved-items read *)
AfterLinks(v) ==
    IF v = "similarity" THEN "embed"
    ELSE IF v = "generative" THEN "generateOnly"
    ELSE "discover"

(* All variants: the saved-items read, its error and its empty result *)
FetchLinks ==
    /\ pc = "fetchLinks"
    /\ calls' = Append(calls, "select links")
    /\ \E result \in StoreResults(SavedItems(links, userId, variant)) :
        /\ userLinks' = result
        /\ IF result.error
           THEN Reply(500, FetchFailed(variant))
           ELSE IF Empty(result)
           THEN Reply(200, RecsBody(<<>>))
           ELSE pc' = AfterLinks(variant) /\ UNCHANGED sent
    /\ UNCHANGED <<unitVars, summary, variant, links, recommendations, userId, userEmbedding, allLinks,
                   recs, genFrom, genOutput, flask, insertResult, caught>>

(* server.js: if (error.message && error.message.includes('embedding')) *)
FallbackOnError(message) == Includes(message, "embedding")

(* server.js: the catch block of the handler, up to its first await *)
Catch(message) ==
    /\ caught' = message
    /\ IF FallbackOnError(message)
       THEN pc' = "catchFetchLinks" /\ UNCHANGED sent
       ELSE Reply(500, ErrorDetails("Failed to generate recommendations", message))

(* server.js: userLinks.map(item => `${item.brand || ''} ${item.title ||   *)
(* ''} ${item.description || ''}`), one entry per item; join(' ') keeps    *)
(* them all                                                                *)
UserStyleText(saved) ==
    [i \in 1..Len(saved) |->
        <<Or(saved[i].brand, ""), Or(saved[i].title, ""), Or(saved[i].description, "")>>]

(* userLinks.slice(0, 10).map(item => `${item.brand || ''} ${item.title || *)
(* ''} ${item.price ? `$${item.price}` : ''}`), one entry per item         *)
SavedItemsContext(saved) ==
    [i \in 1..Len(Slice(saved, SummaryLimit)) |->
        <<Or(saved[i].brand, ""), Or(saved[i].title, ""),
          IF Present(saved[i].price) THEN <<"$">> \o saved[i].price ELSE NoText>>]

(* server.js: const userEmbedding = await generateEmbedding(userStyleText) *)
Embed ==
    /\ pc = "embed"
    /\ calls' = Append(calls, "embed")
    /\ summary' = UserStyleText(userLinks.rows)
    /\ \/ \E v \in QueryVectors :
            /\ userEmbedding' = v
            /\ pc' = "fetchCorpus"
            /\ UNCHANGED <<sent, caught>>
       \/ \E m \in EmbedMessages :
            /\ Catch(m)
            /\ UNCHANGED userEmbedding
    /\ UNCHANGED <<unitVars, variant, links, recommendations, userId, userLinks, allLinks,
                   recs, genFrom, genOutput, flask, insertResult>>

(* server.js: the corpus read, then the empty-corpus fallback or the ranking *)
FetchCorpus ==
    /\ pc = "fetchCorpus"
    /\ calls' = Append(calls, "select corpus")
    /\ \E data \in StoreResults(Corpus(links, userId)) :
      \E top \in TopRecommendations(data.rows, userEmbedding) :
        LET list == FormatSimilar(top)
        IN  /\ allLinks' = data
            /\ IF Empty(data)
               THEN /\ pc' = "generate"
                    /\ genFrom' = "try"
                    /\ UNCHANGED <<recs, sent>>
               ELSE /\ recs' = list
                    /\ UNCHANGED genFrom
                    /\ IF Len(list) > 0
                       THEN pc' = "insert" /\ UNCHANGED sent
                       ELSE Reply(200, RecsBody(list))
    /\ UNCHANGED <<unitVars, summary, variant, links, recommendations, userId, userLinks, userEmbedding,
                   genOutput, flask, insertResult, caught>>

(* A faulty InsertReply: the request fails after its insert. *)
InsertReplyError(failed, list) ==
    Response(500, ErrorBody("Failed to generate recommendations"))

(* A faulty InsertReply: a failed insert fails the request. *)
InsertReplyStrict(failed, list) ==
    IF failed THEN Response(500, ErrorBody("Failed to save recommendations"))
    ELSE Response(200, RecsBody(list))

(* The response that follows the insert, whatever its result *)
InsertReply(failed, list) == Response(200, RecsBody(list))

(* The insert into recommendations of the similarity path, of the          *)
(* generative-only variant and of the discovery variant: the error is      *)
(* logged and the records are returned.                                    *)
Insert ==
    /\ pc = "insert"
    /\ calls' = Append(calls, "insert")
    /\ \E failed \in BOOLEAN :
        /\ insertResult' = IF failed THEN "error" ELSE "ok"
        /\ recommendations' = IF failed THEN recommendations
                              ELSE InsertRows(recommendations,
                                              RowsToInsert(recs, userId, variant))
        /\ sent' = Append(sent, InsertReply(failed, recs))
        /\ pc' = "done"
    /\ UNCHANGED <<unitVars, summary, variant, links, userId, userLinks, userEmbedding, allLinks, recs,
                   genFrom, genOutput, flask, caught>>

(* server.js: an error thrown inside generateOpenAIRecommendations.  Called *)
(* from the try block it reaches the catch block of the handler; called    *)
(* from the catch block nothing catches it: the promise of the handler     *)
(* rejects and no response is written.                                     *)
GenerateThrows(message) ==
    IF genFrom = "try"
    THEN Catch(message)
    ELSE pc' = "rejected" /\ UNCHANGED <<sent, caught>>

(* server.js: generateOpenAIRecommendations up to its insert *)
Generate ==
    /\ pc = "generate"
    /\ calls' = Append(calls, "generate")
    /\ summary' = SavedItemsContext(userLinks.rows)
    /\ \E o \in GenOutcomes :
        /\ genOutput' = o
        /\ IF o.kind \in {"throw", "badJson"}
           THEN /\ GenerateThrows(o.message)
                /\ UNCHANGED recs
           ELSE LET list == FormatGenerated(o.list)
                IN  /\ recs' = list
                    /\ UNCHANGED caught
                    /\ IF Len(list) > 0
                       THEN pc' = "generateInsert" /\ UNCHANGED sent
                       ELSE Reply(200, RecsBody(list))
    /\ UNCHANGED <<unitVars, variant, links, recommendations, userId, userLinks, userEmbedding,
                   allLinks, genFrom, flask, insertResult>>

(* server.js: await supabase.from('recommendations').insert(recsToInsert);  *)
(* return res.json(recommendations)                                        *)
GenerateInsert ==
    /\ pc = "generateInsert"
    /\ calls' = Append(calls, "insert")
    /\ \E failed \in BOOLEAN :
        /\ insertResult' = IF failed THEN "error" ELSE "ok"
        /\ recommendations' = IF failed THEN recommendations
                              ELSE InsertRows(recommendations,
                                              [i \in 1..Len(recs) |->
                                                  PlainRow(recs[i], userId)])
    /\ Reply(200, RecsBody(recs))
    /\ UNCHANGED <<unitVars, summary, variant, links, userId, userLinks, userEmbedding, allLinks, recs,
                   genFrom, genOutput, flask, caught>>

(* server.js: the read of the catch block and the call of                  *)
(* generateOpenAIRecommendations(userLinks, ...), whose userLinks.slice    *)
(* throws when the read gave no data                                       *)
CatchFetchLinks ==
    /\ pc = "catchFetchLinks"
    /\ calls' = Append(calls, "select links")
    /\ genFrom' = "catch"
    /\ \E data \in StoreResults(FallbackItems(links, userId)) :
        /\ userLinks' = data
        /\ pc' = IF data.null THEN "rejected" ELSE "generate"
    /\ UNCHANGED <<unitVars, summary, variant, links, recommendations, userId, userEmbedding, allLinks,
                   recs, genOutput, flask, insertResult, sent, caught>>

(* part_001: links.slice(0, 10).map(item => parts.join(' - ')), where      *)
(* parts holds the brand, the title and the price that the item has        *)
LinksContext(saved) ==
    [i \in 1..Len(Slice(saved, SummaryLimit)) |->
        SelectSeq(<<saved[i].brand, saved[i].title>>, Truthy)
        \o (IF Present(saved[i].price) THEN <<<<"$">> \o saved[i].price>> ELSE <<>>)]

(* part_001, generative-only variant: the generate call, its parse and the *)
(* formatting; every error reaches the catch block of the handler          *)
GenerateOnly ==
    /\ pc = "generateOnly"
    /\ calls' = Append(calls, "generate")
    /\ summary' = LinksContext(userLinks.rows)
    /\ \E o \in GenOutcomes :
        /\ genOutput' = o
        /\ IF o.kind \in {"throw", "badJson"}
           THEN /\ Reply(500, ErrorDetails("Failed to generate recommendations", o.message))
                /\ caught' = o.message
                /\ UNCHANGED recs
           ELSE LET list == FormatGenerativeOnly(o.list)
                IN  /\ recs' = list
                    /\ UNCHANGED caught
                    /\ IF Len(list) > 0
                       THEN pc' = "insert" /\ UNCHANGED sent
                       ELSE Reply(200, RecsBody(list))
    /\ UNCHANGED <<unitVars, variant, links, recommendations, userId, userLinks, userEmbedding,
                   allLinks, genFrom, flask, insertResult>>

----------------------------------------------------------------------------
(* part_000: the discovery variant *)

(* const contextUrl = links[0]?.url *)
ContextUrl(saved) == IF Len(saved) > 0 THEN saved[1].url ELSE NULL

(* flaskBody: by URL when there is one, by description otherwise *)
QueryForm(contextUrl) == IF Truthy(contextUrl) THEN "url" ELSE "description"

(* A faulty ShouldRetry: the status of the response is not looked at. *)
ShouldRetryAnyStatus(contextUrl, status) == Truthy(contextUrl)

(* if (contextUrl && flaskResponse.status === 400) *)
ShouldRetry(contextUrl, status) == Truthy(contextUrl) /\ status = 400

(* A faulty GiveUp: the error is answered like those of the outer catch. *)
GiveUpWithError ==
    Reply(500, ErrorDetails("Failed to generate recommendations", <<"fetch", "failed">>))

(* catch (flaskError) { return res.json({ recommendations: [] }) } *)
GiveUp == Reply(200, RecsBody(<<>>))

(* const searchResults = await response.json(), then the formatting and    *)
(* the choice between the insert and the response                          *)
ProcessResults(body, list) ==
    IF body = "unreadable"
    THEN GiveUp /\ UNCHANGED recs
    ELSE LET formatted == FormatDiscovered(list, userLinks.rows)
         IN  /\ recs' = formatted
             /\ IF Len(formatted) > 0
                THEN pc' = "insert" /\ UNCHANGED sent
                ELSE Reply(200, RecsBody(formatted))

(* The first fetch of the discovery service and what follows its response *)
Discover ==
    /\ pc = "discover"
    /\ LET contextUrl == ContextUrl(userLinks.rows)
       IN  /\ calls' = Append(calls, "discover " \o QueryForm(contextUrl))
           /\ \E o \in FetchOutcomes :
                IF o.kind = "throw"
                THEN GiveUp /\ UNCHANGED <<recs, flask>>
                ELSE IF ~Ok(o.status)
                THEN \* await flaskResponse.text() reads the body
                     /\ flask' = [status |-> o.status, bodyUsed |-> TRUE, body |-> o.body,
                                  list |-> o.list, contextUrl |-> contextUrl,
                                  retry |-> NoRetry]
                     /\ UNCHANGED recs
                     /\ IF o.body = "unreadable"
                        THEN GiveUp
                        ELSE IF ShouldRetry(contextUrl, o.status)
                        THEN pc' = "retry" /\ UNCHANGED sent
                        ELSE Reply(200, RecsBody(<<>>))
                ELSE /\ flask' = [status |-> o.status, bodyUsed |-> TRUE, body |-> o.body,
                                  list |-> o.list, contextUrl |-> contextUrl,
                                  retry |-> NoRetry]
                     /\ ProcessResults(o.body, o.list)
    /\ UNCHANGED <<unitVars, summary, variant, links, recommendations, userId, userLinks, userEmbedding,
                   allLinks, genFrom, genOutput, insertResult, caught>>

(* The retry by description.  When it succeeds its results are read into a *)
(* block-scoped constant, and the handler goes on to read the body of the  *)
(* first response, which flaskResponse.text() has already used: json()     *)
(* throws and the inner catch answers.                                     *)
Retry ==
    /\ pc = "retry"
    /\ calls' = Append(calls, "discover description")
    /\ \E o \in FetchOutcomes :
        IF o.kind = "throw"
        THEN GiveUp /\ UNCHANGED <<recs, flask>>
        ELSE /\ flask' = [flask EXCEPT !.retry = [status |-> o.status, body |-> o.body,
                                                  list |-> o.list]]
             /\ IF ~Ok(o.status)
                THEN Reply(200, RecsBody(<<>>)) /\ UNCHANGED recs
                ELSE IF o.body = "unreadable" \/ flask.bodyUsed
                THEN GiveUp /\ UNCHANGED recs
                ELSE ProcessResults(flask.body, flask.list)
    /\ UNCHANGED <<unitVars, summary, variant, links, recommendations, userId, userLinks, userEmbedding,
                   allLinks, genFrom, genOutput, insertResult, caught>>

----------------------------------------------------------------------------

Next ==
    \/ ReceiveRequest
    \/ FetchLinks
    \/ Embed
    \/ FetchCorpus
    \/ Insert
    \/ Generate
    \/ GenerateInsert
    \/ CatchFetchLinks
    \/ GenerateOnly
    \/ Discover
    \/ Retry

Spec == Init /\ [][Next]_vars

(* The handler has returned or its promise has rejected. *)
Finished == pc \in {"done", "rejected"}

TypeOK ==
    /\ variant \in Variants
    /\ pc \in {"start", "fetchLinks", "embed", "fetchCorpus", "insert", "generate",
               "generateInsert", "catchFetchLinks", "generateOnly", "discover",
               "retry", "done", "rejected"}
    /\ Len(sent) <= 1

----------------------------------------------------------------------------
(* The price mapping of part_000 taken alone: it is applied to a price,    *)
(* then to its own result.                                                 *)

MaxPriceLen == 3       \* characters of a price
MaxApply == 2          \* applications of the mapping

PriceAlphabet == {"1", ".", "f", "$"}
Prices == UNION {[1..n -> PriceAlphabet] : n \in 0..MaxPriceLen}

InitPrice ==
    /\ rawPrice \in Prices
    /\ cleaned = <<>>
    /\ variant = "discovery"
    /\ links = <<>>
    /\ userId = NULL
    /\ HandlerStart
    /\ EndpointsIdle
    /\ CosineIdle

ApplyPrice ==
    /\ Len(cleaned) < MaxApply
    /\ cleaned' = Append(cleaned, CleanPrice(IF Len(cleaned) = 0 THEN rawPrice
                                              ELSE cleaned[Len(cleaned)]))
    /\ UNCHANGED <<summary, cosineVars, rawPrice, endpointVars, variant, links, recommendations, userId, pc,
                   userLinks, userEmbedding, allLinks, recs, genFrom, genOutput, flask,
                   insertResult, sent, calls, caught>>

NextPrice == ApplyPrice

SpecPrice == InitPrice /\ [][NextPrice]_vars

----------------------------------------------------------------------------
(* The request next to the requests of other users.  A request writes the  *)
(* store in one statement, the insert of its rows into recommendations;    *)
(* the requests of the other users are taken by these inserts, which can   *)
(* happen at any moment of the request.                                    *)

MaxOther == 1          \* rows inserted by the requests of other users

OtherRows == SelectSeq(recommendations, LAMBDA row : row.user_id # userId)

OtherRequestInserts ==
    /\ Len(OtherRows) < MaxOther
    /\ \E u \in Users \ {userId} :
         recommendations' =
            InsertRows(recommendations, <<PlainRow(FormatGenerated(<<FullAi>>)[1], u)>>)
    /\ UNCHANGED <<unitVars, summary, variant, links, userId, pc, userLinks, userEmbedding,
                   allLinks, recs, genFrom, genOutput, flask, insertResult, sent,
                   calls, caught>>

NextShared ==
    \/ Next
    \/ OtherRequestInserts

SpecShared == Init /\ [][NextShared]_vars

----------------------------------------------------------------------------
(* POST /api/generate-embedding of server.js: one request.  The text       *)
(* fields of the request are sequences of characters, a blank or a letter. *)

MaxFieldLen == 1       \* characters of a text field of the request

FieldChars == {" ", "a"}
TextFields == UNION {[1..n -> FieldChars] : n \in 0..MaxFieldLen}
LinkIds == NoId..(MaxLinks + 1)
Bodies == [linkId : LinkIds, title : TextFields, brand : TextFields,
           description : TextFields]

(* String.prototype.trim *)
RECURSIVE TrimStart(_)
TrimStart(s) == IF Len(s) > 0 /\ s[1] = " " THEN TrimStart(Tail(s)) ELSE s
RECURSIVE TrimEnd(_)
TrimEnd(s) ==
    IF Len(s) > 0 /\ s[Len(s)] = " " THEN TrimEnd(SubSeq(s, 1, Len(s) - 1)) ELSE s
Trim(s) == TrimEnd(TrimStart(s))

(* `${brand || ''} ${title || ''} ${description || ''}`.trim() *)
EmbeddingText(b) == Trim(b.brand \o <<" ">> \o b.title \o <<" ">> \o b.description)

(* JSON.stringify(embedding): the text "[x,y,...]" *)
Stringify(v) ==
    [i \in 1..(2 * Len(v) + 1) |->
        IF i = 1 THEN "["
        ELSE IF i = 2 * Len(v) + 1 THEN "]"
        ELSE IF i % 2 = 0 THEN v[i \div 2]
        ELSE ","]

(* .from('links').update({ embedding }).eq('id', linkId) *)
UpdateEmbedding(table, linkId, embedding) ==
    [i \in 1..Len(table) |->
        IF table[i].id = linkId THEN [table[i] EXCEPT !.embedding = embedding]
        ELSE table[i]]

(* { success: true } and { error: error.message } *)
SuccessBody ==
    [kind |-> "success", error |-> NULL, hasDetails |-> FALSE, details |-> NoMessage,
     recommendations |-> <<>>]
MessageBody(message) ==
    [kind |-> "error",
     error |-> IF message = NoMessage THEN NULL ELSE Join(message, " ", Len(message)),
     hasDetails |-> FALSE, details |-> NoMessage, recommendations |-> <<>>]

InitEmbedding ==
    /\ reqBody \in Bodies
    /\ updateResult = "none"
    /\ ingest = <<>>
    /\ links \in SmallTables
    /\ variant = "similarity"
    /\ userId = NULL
    /\ HandlerStart
    /\ rawPrice = NoText
    /\ cleaned = <<>>
    /\ CosineIdle

(* const text = ...; if (!text) return 400 *)
ReceiveText ==
    /\ pc = "start"
    /\ IF Len(EmbeddingText(reqBody)) = 0
       THEN Reply(400, ErrorBody("No text to embed"))
       ELSE pc' = "embedText" /\ UNCHANGED sent
    /\ UNCHANGED <<summary, cosineVars, rawPrice, cleaned, endpointVars, variant, links, recommendations,
                   userId, userLinks, userEmbedding, allLinks, recs, genFrom, genOutput,
                   flask, insertResult, calls, caught>>

(* const embedding = await generateEmbedding(text), and the catch block *)
EmbedText ==
    /\ pc = "embedText"
    /\ calls' = Append(calls, "embed")
    /\ \/ \E v \in QueryVectors :
            /\ userEmbedding' = v
            /\ pc' = "updateLink"
            /\ UNCHANGED <<sent, caught>>
       \/ \E m \in EmbedMessages :
            /\ caught' = m
            /\ Reply(500, MessageBody(m))
            /\ UNCHANGED userEmbedding
    /\ UNCHANGED <<summary, cosineVars, rawPrice, cleaned, endpointVars, variant, links, recommendations,
                   userId, userLinks, allLinks, recs, genFrom, genOutput, flask,
                   insertResult>>

(* The update of the links row, its error, and the success response *)
UpdateLink ==
    /\ pc = "updateLink"
    /\ calls' = Append(calls, "update links")
    /\ \E failed \in BOOLEAN :
        /\ updateResult' = IF failed THEN "error" ELSE "ok"
        /\ links' = IF failed THEN links
                    ELSE UpdateEmbedding(links, reqBody.linkId, Stringify(userEmbedding))
        /\ IF failed
           THEN Reply(500, ErrorBody("Failed to save embedding"))
           ELSE Reply(200, SuccessBody)
    /\ UNCHANGED <<summary, cosineVars, rawPrice, cleaned, reqBody, ingest, variant, recommendations, userId,
                   userLinks, userEmbedding, allLinks, recs, genFrom, genOutput, flask,
                   insertResult, caught>>

NextEmbedding ==
    \/ ReceiveText
    \/ EmbedText
    \/ UpdateLink

SpecEmbedding == InitEmbedding /\ [][NextEmbedding]_vars

----------------------------------------------------------------------------
(* POST /api/ingest-link of server.js: two requests that run concurrently  *)
(* on the links table.  A step of a request is one awaited call completing,   *)
(* followed by the synchronous code up to the next awaited call.           *)

(* A product page, two addresses that resolve to it, and another page *)
CoatUrl == "https://shop.test/coat"
HatUrl == "https://shop.test/hat"
CoatFromMail == "https://shop.test/coat?utm=a"
CoatFromFeed == "https://shop.test/coat?utm=b"
Canonical(url) == IF url = HatUrl THEN HatUrl ELSE CoatUrl

(* A row as the client inserted it, before its ingestion *)
IngestRow(id, user, url) == [LinkRow(id, user, PlainLink) EXCEPT !.url = url]

(* The rows that clients saved: a user's two copies of a page, the same    *)
(* page already under its canonical url, another page, another user's copy *)
SavedRows ==
    <<IngestRow(1, "u1", CoatFromMail), IngestRow(2, "u1", CoatFromFeed),
      IngestRow(3, "u1", CoatUrl), IngestRow(4, "u1", HatUrl),
      IngestRow(5, "u2", CoatFromMail)>>

(* No user owns two rows with the same url. *)
UniqueUrls(table) ==
    \A i, j \in 1..Len(table) :
        (i # j /\ table[i].user_id = table[j].user_id) => table[i].url # table[j].url

(* The links table holds some of the saved rows. *)
IngestTables ==
    {SelectSeq(SavedRows, LAMBDA row : row.id \in ids) :
        ids \in (SUBSET (1..Len(SavedRows))) \ {{}}}

(* The requests in flight *)
Requests == {1, 2}

(* The locals of a request; existing is the id of the row found, or NoId *)
IngestStart(linkId, user, url) ==
    [pc |-> "start", linkId |-> linkId, userId |-> user, url |-> url,
     canonicalUrl |-> NULL, named |-> FALSE, existing |-> NoId,
     embedding |-> NoEmbedding, status |-> 0, kind |-> "none"]

(* The requests a client sends for the rows of a table: for a row, with    *)
(* its id, owner and url, or without linkId                                *)
RequestsFor(table) ==
    {IngestStart(table[i].id, table[i].user_id, table[i].url) : i \in 1..Len(table)}
    \cup {IngestStart(NoId, table[1].user_id, table[1].url)}

(* The main handler and the other units stay idle. *)
recommendVars == <<variant, recommendations, userId, pc, userLinks, userEmbedding,
                   allLinks, recs, genFrom, genOutput, flask, insertResult, sent,
                   calls, caught, summary>>

InitIngest ==
    /\ links \in IngestTables
    /\ ingest \in [Requests -> RequestsFor(links)]
    /\ reqBody = NoBody
    /\ updateResult = "none"
    /\ variant = "similarity"
    /\ userId = NULL
    /\ HandlerStart
    /\ rawPrice = NoText
    /\ cleaned = <<>>
    /\ CosineIdle

(* res.status(status).json(...) of request r, after which it returns *)
Respond(r, status, kind) ==
    ingest' = [ingest EXCEPT ![r].pc = "done", ![r].status = status, ![r].kind = kind]

(* What firecrawl-scrape gives: an error, or data with or without a        *)
(* canonicalUrl and with or without title and brand                        *)
ScrapeOutcomes ==
    {[error |-> TRUE, canonical |-> FALSE, named |-> FALSE]}
    \cup {[error |-> FALSE, canonical |-> c, named |-> n] : c, n \in BOOLEAN}

(* The validation of the body, the scrape call and the extraction *)
Scrape(r) ==
    /\ ingest[r].pc = "start"
    /\ IF ingest[r].linkId = NoId \/ ~Truthy(ingest[r].userId) \/ ~Truthy(ingest[r].url)
       THEN Respond(r, 400, "error")
       ELSE \E o \in ScrapeOutcomes :
              IF o.error
              THEN Respond(r, 500, "error")
              ELSE ingest' = [ingest EXCEPT
                        ![r].pc = "check",
                        ![r].canonicalUrl = IF o.canonical THEN Canonical(ingest[r].url)
                                            ELSE ingest[r].url,
                        ![r].named = o.named]
    /\ UNCHANGED <<links, recommendVars, cosineVars, rawPrice, cleaned, reqBody, updateResult>>

(* .eq('user_id', userId).eq('url', canonicalUrl).maybeSingle(): the row,  *)
(* or no data when no row or several rows match or the read fails          *)
Existing(table, user, url) ==
    LET found == SelectSeq(table, LAMBDA row : row.user_id = user /\ row.url = url)
    IN  {NoId} \cup (IF Len(found) = 1 THEN {found[1].id} ELSE {})

(* A faulty test that takes the request's own row for a duplicate *)
IsAnyExisting(existing, linkId) == existing # NoId

(* if (existing && existing.id !== linkId) *)
IsDuplicate(existing, linkId) == existing # NoId /\ existing # linkId

(* The duplicate check and the choice of the next call *)
CheckExisting(r) ==
    /\ ingest[r].pc = "check"
    /\ \E e \in Existing(links, ingest[r].userId, ingest[r].canonicalUrl) :
         ingest' = [ingest EXCEPT
            ![r].existing = e,
            ![r].pc = IF IsDuplicate(e, ingest[r].linkId) THEN "delete"
                      ELSE IF ingest[r].named THEN "embed"
                      ELSE "update"]
    /\ UNCHANGED <<links, recommendVars, cosineVars, rawPrice, cleaned, reqBody, updateResult>>

(* .from('links').delete().eq('id', linkId), whose result is not looked at *)
DeleteRow(table, linkId) == SelectSeq(table, LAMBDA row : row.id # linkId)

DeleteDuplicate(r) ==
    /\ ingest[r].pc = "delete"
    /\ \E failed \in BOOLEAN :
         links' = IF failed THEN links ELSE DeleteRow(links, ingest[r].linkId)
    /\ Respond(r, 200, "duplicated")
    /\ UNCHANGED <<recommendVars, cosineVars, rawPrice, cleaned, reqBody, updateResult>>

(* const embedding = text ? await generateEmbedding(text) : null *)
EmbedLink(r) ==
    /\ ingest[r].pc = "embed"
    /\ \/ \E v \in QueryVectors :
            ingest' = [ingest EXCEPT ![r].pc = "update", ![r].embedding = Stringify(v)]
       \/ Respond(r, 500, "error")
    /\ UNCHANGED <<links, recommendVars, cosineVars, rawPrice, cleaned, reqBody, updateResult>>

(* .from('links').update({ url: canonicalUrl, ... }).eq('id', linkId) *)
UpdateRow(table, req) ==
    [i \in 1..Len(table) |->
        IF table[i].id = req.linkId
        THEN [table[i] EXCEPT !.url = req.canonicalUrl,
                              !.title = IF req.named THEN "Coat" ELSE NULL,
                              !.brand = IF req.named THEN "Acme" ELSE NULL,
                              !.embedding = req.embedding]
        ELSE table[i]]

IngestUpdate(r) ==
    /\ ingest[r].pc = "update"
    /\ \E failed \in BOOLEAN :
         IF failed
         THEN Respond(r, 500, "error") /\ UNCHANGED links
         ELSE Respond(r, 200, "success") /\ links' = UpdateRow(links, ingest[r])
    /\ UNCHANGED <<recommendVars, cosineVars, rawPrice, cleaned, reqBody, updateResult>>

NextIngest ==
    \E r \in Requests :
        \/ Scrape(r)
        \/ CheckExisting(r)
        \/ DeleteDuplicate(r)
        \/ EmbedLink(r)
        \/ IngestUpdate(r)

SpecIngest == InitIngest /\ [][NextIngest]_vars

----------------------------------------------------------------------------
(* cosineSimilarity and the ranking of server.js taken alone, over integer *)
(* vectors: the score of the query against itself, and the order of items  *)
(* ranked against the query.                                               *)

MaxCoord == 1        \* largest coordinate of a vector
MaxVecs == 3         \* items to rank

Dim == 2
Vectors == [1..Dim -> (0 - MaxCoord)..MaxCoord]
ZeroVector == [i \in 1..Dim |-> 0]

InitCosine ==
    /\ queryVec \in Vectors \ {ZeroVector}
    /\ itemVecs \in UNION {[1..n -> Vectors] : n \in 1..MaxVecs}
    /\ selfScore = NoScore
    /\ ranking = <<>>
    /\ variant = "similarity"
    /\ links = <<>>
    /\ userId = NULL
    /\ HandlerStart
    /\ rawPrice = NoText
    /\ cleaned = <<>>
    /\ EndpointsIdle

(* cosineSimilarity(a, a) *)
ScoreSelf ==
    /\ selfScore = NoScore
    /\ selfScore' = cosineSimilarity(queryVec, queryVec)
    /\ UNCHANGED <<queryVec, itemVecs, ranking, links, recommendVars, rawPrice, cleaned,
                   endpointVars>>

(* allLinks.map(...).sort((a, b) => b.similarity - a.similarity).slice(0, 8) *)
RankItems ==
    /\ ranking = <<>>
    /\ ranking' \in TopRecommendations([i \in 1..Len(itemVecs) |->
                                            [id |-> i, embedding |-> itemVecs[i]]],
                                       queryVec)
    /\ UNCHANGED <<queryVec, itemVecs, selfScore, links, recommendVars, rawPrice, cleaned,
                   endpointVars>>

NextCosine == ScoreSelf \/ RankItems

SpecCosine == InitCosine /\ [][NextCosine]_vars

----------------------------------------------------------------------------
(* Observations of a run *)

(* A row with this id is in the table. *)
HasRow(table, id) == \E i \in 1..Len(table) : table[i].id = id

(* The two requests are for two rows of one user that resolve to the same  *)
(* canonical url, and both have answered.                                  *)
TwoCopiesIngested ==
    /\ ingest # <<>>
    /\ \A r \in Requests : ingest[r].pc = "done" /\ ingest[r].linkId # NoId
    /\ ingest[1].linkId # ingest[2].linkId
    /\ ingest[1].userId = ingest[2].userId
    /\ Canonical(ingest[1].url) = Canonical(ingest[2].url)

(* The user has a row, other than the two, that is stored under the        *)
(* canonical url of the two.                                               *)
ThirdCopy ==
    \E i \in 1..Len(links) :
        /\ links[i].id \notin {ingest[1].linkId, ingest[2].linkId}
        /\ links[i].user_id = ingest[1].userId
        /\ links[i].url = Canonical(ingest[1].url)

RecsOf(response) == response.body.recommendations
EmptySuccess == Response(200, RecsBody(<<>>))
MissingUserIdResponse == Response(400, ErrorBody("User ID is required"))
CountOf(call) == Len(SelectSeq(calls, LAMBDA c : c = call))
DiscoverCalls ==
    SelectSeq(calls, LAMBDA c : c \in {"discover url", "discover description"})

----------------------------------------------------------------------------
(* C1: in the handler of server.js, once the handler is over (it returned  *)
(* or its promise rejected), the request has received exactly one          *)
(* response, for every combination of outcomes of the external calls.      *)
C1_ExactlyOneResponse ==
    (variant = "similarity" /\ Finished) => Len(sent) = 1

(* C2: in server.js, when the corpus read yields no candidate and the      *)
(* generated text is not valid JSON, the response is 200 with an empty     *)
(* recommendations list.                                                   *)
C2_BadJsonAnswersEmptySuccess ==
    (/\ variant = "similarity"
     /\ Finished
     /\ CountOf("select corpus") = 1
     /\ genOutput.kind = "badJson")
    => sent = <<EmptySuccess>>

(* C3: the generative source is invoked at most once in a request,         *)
(* whatever errors it raises.                                              *)
C3_GenerateAtMostOnce == CountOf("generate") <= 1

(* C4: a request without userId (missing or falsy) is answered             *)
(* 400 {error: "User ID is required"} and makes no external call: no store *)
(* read, no embed, no generate, no discovery call, no insert.              *)
C4_MissingUserIdFailsFast ==
    (~Truthy(userId) /\ pc # "start")
    => /\ pc = "done"
       /\ sent = <<MissingUserIdResponse>>
       /\ calls = <<>>
       /\ recommendations = <<>>
C4_Witness ==
    /\ ~Truthy(userId)
    /\ pc = "done"
    /\ variant = "discovery"
    /\ sent = <<MissingUserIdResponse>>

(* C5: when the saved-items read succeeds with no data or an empty list,   *)
(* the response is 200 {recommendations: []} and the read is the only      *)
(* external call of the request: no embed, no corpus read, no generate, no *)
(* discovery call, no insert.                                              *)
C5_NoItemsShortCircuits ==
    (pc \notin {"start", "fetchLinks"} /\ Truthy(userId)
        /\ ~userLinks.error /\ (userLinks.null \/ Len(userLinks.rows) = 0)
        /\ genFrom # "catch")
    => /\ pc = "done"
       /\ sent = <<EmptySuccess>>
       /\ calls = <<"select links">>
       /\ recommendations = <<>>
C5_Witness ==
    /\ pc = "done"
    /\ variant = "similarity"
    /\ userLinks = Data(<<>>)
    /\ Len(links) > 0
    /\ sent = <<EmptySuccess>>

(* C6: when the insert into recommendations fails, on the similarity path  *)
(* and on the generative path, the request ends with one 200 response that *)
(* carries the list computed before the insert, and nothing was stored.    *)
C6_InsertFailureKeepsResponse ==
    insertResult = "error"
    => /\ pc = "done"
       /\ Len(recs) > 0
       /\ sent = <<Response(200, RecsBody(recs))>>
       /\ recommendations = <<>>
C6_Witness ==
    /\ insertResult = "error"
    /\ variant = "similarity"
    /\ genFrom = "none"
    /\ Len(sent) = 1
    /\ Len(RecsOf(sent[1])) > 1

(* C7: every record returned in a response or inserted into the            *)
(* recommendations table has a non-empty url and a non-empty title, on the *)
(* similarity, generative and discovery paths.                             *)
C7_UrlAndTitleNonEmpty ==
    /\ \A i \in 1..Len(sent) : \A j \in 1..Len(RecsOf(sent[i])) :
          Truthy(RecsOf(sent[i])[j].url) /\ Truthy(RecsOf(sent[i])[j].title)
    /\ \A i \in 1..Len(recommendations) :
          Truthy(recommendations[i].url) /\ Truthy(recommendations[i].title)

(* C8: every successful response carries at most 8 recommendations, in     *)
(* every variant of the handler.                                           *)
C8_AtMostEight ==
    \A i \in 1..Len(sent) : sent[i].status = 200 => Len(RecsOf(sent[i])) <= TopK

GaveUp == flask = NoFlask \/ ~Ok(flask.status) \/ flask.body = "unreadable"

(* C10: in the discovery variant, once the saved items were loaded and the *)
(* discovery service was called, the request ends with one 200 response    *)
(* and never a 5xx; when the discovery source gave up that response is     *)
(* {recommendations: []}.                                                  *)
C10_GiveUpIsEmptySuccess ==
    (variant = "discovery" /\ Finished /\ Len(DiscoverCalls) > 0)
    => /\ Len(sent) = 1
       /\ sent[1].status = 200
       /\ GaveUp => sent = <<EmptySuccess>>
C10_Witness ==
    /\ variant = "discovery"
    /\ Finished
    /\ Len(DiscoverCalls) = 1
    /\ flask = NoFlask
    /\ sent = <<EmptySuccess>>

(* C11: an exception that is a programming error (the TypeError of reading *)
(* 'embedding' of an undefined response entry) ends the request with a 500 *)
(* and never starts the generative fallback, whatever its message.         *)
C11_TypeErrorIsNotAFallback ==
    caught = UndefinedEmbedding
    => /\ pc = "done"
       /\ Len(sent) = 1
       /\ sent[1].status = 500
       /\ CountOf("generate") = 0

(* Failures of the embedding call that have nothing to do with missing     *)
(* data: the key is refused, or the project may not use the model.         *)
AuthFailures == {IncorrectApiKey, ModelAccessDenied}

(* C12: when the embedding call throws an authentication or authorisation  *)
(* failure, the request ends with a 500 response that carries an error and *)
(* a details field, and the generative source is not invoked.              *)
C12_FatalEmbedFailureIs500 ==
    (variant = "similarity" /\ caught \in AuthFailures /\ CountOf("select corpus") = 0)
    => /\ pc = "done"
       /\ Len(sent) = 1
       /\ sent[1].status = 500
       /\ sent[1].body.kind = "error"
       /\ sent[1].body.hasDetails
       /\ CountOf("generate") = 0

(* C13: when the saved-items read fails the response is a 500 whose body   *)
(* has an error and a details string, and no later step runs: the read is  *)
(* the only external call.  When the corpus read fails the response is a   *)
(* 500 as well and the generative source is not invoked.                   *)
C13_ReadFailuresAre500 ==
    /\ (userLinks.error /\ genFrom # "catch")
       => /\ pc = "done"
          /\ Len(sent) = 1
          /\ sent[1].status = 500
          /\ sent[1].body.kind = "error"
          /\ sent[1].body.hasDetails
          /\ calls = <<"select links">>
          /\ recommendations = <<>>
    /\ allLinks.error
       => /\ pc = "done"
          /\ Len(sent) = 1
          /\ sent[1].status = 500
          /\ CountOf("generate") = 0

----------------------------------------------------------------------------
(* Observations of the similarity path of server.js *)

(* The request was answered with the ranked corpus. *)
SimilarityAnswered ==
    /\ variant = "similarity"
    /\ pc = "done"
    /\ CountOf("select corpus") = 1
    /\ ~allLinks.null
    /\ Len(allLinks.rows) > 0
    /\ Len(sent) = 1

(* The record of each corpus row, in the order of the corpus read *)
CorpusRecords == FormatSimilar(ItemsWithSimilarity(allLinks.rows, userEmbedding))
PlacesOf(rec) == {i \in 1..Len(CorpusRecords) : CorpusRecords[i] = rec}

(* s >= t and s = t for two scores; false when one of them is NaN *)
ScoreGeq(s, t) == ~IsNaN(s) /\ ~IsNaN(t) /\ ~ScoreLess(s, t)
ScoreEq(s, t) == ScoreGeq(s, t) /\ ScoreGeq(t, s)

(* C14: on the similarity path the returned list is sorted non-increasing  *)
(* by similarity_score, and two records with equal scores that can be told *)
(* apart appear in the order in which the corpus read returned their rows. *)
C14_SortedAndStable ==
    SimilarityAnswered
    => LET r == RecsOf(sent[1])
       IN  \A i, j \in 1..Len(r) :
             i < j
             => /\ ScoreGeq(r[i].similarity_score, r[j].similarity_score)
                /\ (ScoreEq(r[i].similarity_score, r[j].similarity_score) /\ r[i] # r[j])
                   => \E a \in PlacesOf(r[i]), b \in PlacesOf(r[j]) : a < b

(* No score of the loaded corpus is NaN. *)
NoNaN == \A i \in 1..Len(CorpusRecords) : ~IsNaN(CorpusRecords[i].similarity_score)

(* The number of entries of a list that are equal to a record *)
Copies(list, rec) == Cardinality({i \in 1..Len(list) : list[i] = rec})

(* C15: on the similarity path the returned list is the top 8 of the       *)
(* corpus: it has min(8, size of the loaded corpus) entries, and no corpus *)
(* item that is left out of it has a strictly greater score than an item   *)
(* that is in it.                                                          *)
C15_TopEightOfCorpus ==
    SimilarityAnswered
    => LET r == RecsOf(sent[1])
       IN  /\ Len(r) = Min(TopK, Len(allLinks.rows))
           /\ \A c \in 1..Len(CorpusRecords) :
                Copies(CorpusRecords, CorpusRecords[c]) > Copies(r, CorpusRecords[c])
                => \A i \in 1..Len(r) :
                     ~(/\ ScoreGeq(CorpusRecords[c].similarity_score, r[i].similarity_score)
                       /\ ~ScoreEq(CorpusRecords[c].similarity_score, r[i].similarity_score))

(* C16: a vector of magnitude zero gets the score 0: no score that enters  *)
(* the sort of the similarity path is NaN, and no returned record carries  *)
(* a NaN score.                                                            *)
C16_ZeroMagnitudeScoresZero ==
    (variant = "similarity" /\ CountOf("select corpus") = 1)
    => /\ \A i \in 1..Len(CorpusRecords) :
            LET score == CorpusRecords[i].similarity_score
            IN  (score.a2 = 0 \/ score.b2 = 0) => (~IsNaN(score) /\ score.dot = 0)
       /\ SimilarityAnswered
          => \A j \in 1..Len(RecsOf(sent[1])) :
               ~IsNaN(RecsOf(sent[1])[j].similarity_score)

(* An image_url that is null, or a thumbnail without a placeholder part *)
CleanImage(image) ==
    \/ image = NoText
    \/ ~HasPart(image, "example.com") /\ ~HasPart(image, "1234567")

(* C17: the image_url of every record returned or persisted is null or a   *)
(* thumbnail that contains neither "example.com" nor "1234567", in every   *)
(* variant of the handler.                                                 *)
C17_ImageUrlIsClean ==
    /\ \A i \in 1..Len(sent) : \A j \in 1..Len(RecsOf(sent[i])) :
          CleanImage(RecsOf(sent[i])[j].image_url)
    /\ \A i \in 1..Len(recommendations) : CleanImage(recommendations[i].image_url)

(* C18: the price mapping of part_000 is idempotent: applied to its own    *)
(* result it gives that result again, for every price, those without a     *)
(* digit and without a '.' included.                                       *)
C18_PriceIdempotent == Len(cleaned) >= 2 => cleaned[2] = cleaned[1]

(* The reasons "<n>% style match" with n an integer from 0 to 100 *)
StyleMatchReasons == {ToString(n) \o "% style match" : n \in 0..100}

(* C19: on the similarity path every returned record has a reason of the   *)
(* form "<n>% style match" with n an integer, 0 <= n <= 100, for every     *)
(* corpus vector, those of negative cosine similarity included.            *)
C19_ReasonIsPercentage ==
    SimilarityAnswered
    => \A j \in 1..Len(RecsOf(sent[1])) : RecsOf(sent[1])[j].reason \in StyleMatchReasons

(* A step of the handler of the request (the inserts of other requests    *)
(* leave its position and its calls as they are)                           *)
HandlerStep == pc' # pc \/ calls' # calls

(* C20: a step of a request for user u changes the store only by adding    *)
(* rows to the recommendations table, each with user_id = u, feedback null *)
(* and is_saved false; the rows that were in the table stay as they were   *)
(* and the links table is not written, whatever the requests of other      *)
(* users insert in between.                                                *)
C20_OnlyInsertsOwnRows ==
    [][HandlerStep
       => /\ links' = links
          /\ Len(recommendations') >= Len(recommendations)
          /\ SubSeq(recommendations', 1, Len(recommendations)) = recommendations
          /\ \A i \in (Len(recommendations) + 1)..Len(recommendations') :
                /\ recommendations'[i].user_id = userId
                /\ recommendations'[i].feedback = NULL
                /\ recommendations'[i].is_saved = FALSE]_vars
C20_Witness ==
    /\ insertResult = "ok"
    /\ Len(recommendations) >= 2
    /\ recommendations[1].user_id = "u2"
    /\ recommendations[2].user_id = "u1"
    /\ userId = "u1"
    /\ variant = "similarity"
    /\ genFrom = "none"

(* C21: POST /api/generate-embedding answers 400, with no embed call and   *)
(* no store update, when the text of the request is empty or blank; it     *)
(* answers 200 {success: true} only when the embedding was written to the  *)
(* row with id linkId; a failed embed call or a failed update is answered  *)
(* 500 and never 200.                                                      *)
C21_EmbeddingStatuses ==
    pc = "done"
    => /\ Len(sent) = 1
       /\ Len(EmbeddingText(reqBody)) = 0
          => (sent[1].status = 400 /\ calls = <<>>)
       /\ sent[1].status = 200
          => /\ sent[1].body = SuccessBody
             /\ \E i \in 1..Len(links) :
                   /\ links[i].id = reqBody.linkId
                   /\ links[i].embedding = Stringify(userEmbedding)
       /\ (caught # NotCaught \/ updateResult = "error") => sent[1].status = 500

(* C22: after any interleaving of POST /api/ingest-link requests, no user  *)
(* owns two rows of the links table with the same url.                     *)
C22_UrlUniquePerUser == UniqueUrls(links)

(* C29 as stated: when POST /api/ingest-link has run for two rows of one   *)
(* user that resolve to the same canonical url, one of the two rows still  *)
(* exists.                                                                 *)
C29_OneOfTwoSurvives ==
    TwoCopiesIngested
    => (HasRow(links, ingest[1].linkId) \/ HasRow(links, ingest[2].linkId))

(* C29 amended: a copy of the saved link always survives.  Both rows are   *)
(* deleted only if the user has a third row stored under the canonical     *)
(* url; otherwise one of the two rows still exists.                        *)
C29_CopySurvives ==
    TwoCopiesIngested
    => \/ ThirdCopy
       \/ HasRow(links, ingest[1].linkId)
       \/ HasRow(links, ingest[2].linkId)

(* One of the two copies was deleted as a duplicate of the other. *)
C29_Witness ==
    /\ TwoCopiesIngested
    /\ ~ThirdCopy
    /\ ingest[2].kind = "duplicated"
    /\ ~HasRow(links, ingest[2].linkId)
    /\ ingest[1].kind = "success"
    /\ HasRow(links, ingest[1].linkId)

(* C23: in the discovery variant, when the first discovery query gets a    *)
(* non-success response and the retry delivers results, the response       *)
(* holds the recommendations built from the results of the retry.          *)
C23_RetryResultsAnswered ==
    (/\ variant = "discovery"
     /\ pc = "done"
     /\ ~Ok(flask.status)
     /\ Ok(flask.retry.status)
     /\ flask.retry.body = "results"
     /\ Len(FormatDiscovered(flask.retry.list, userLinks.rows)) > 0)
    => /\ Len(sent) = 1
       /\ RecsOf(sent[1]) = FormatDiscovered(flask.retry.list, userLinks.rows)

(* The record that a links row gives on the similarity path *)
RecordOf(row) == FormatSimilar(ItemsWithSimilarity(<<row>>, userEmbedding))[1]

(* The rows of other users that carry an embedding *)
ForeignEmbedded ==
    {i \in 1..Len(links) : links[i].user_id # userId /\ links[i].embedding # NoEmbedding}

(* C24: every recommendation returned on the similarity path comes from a  *)
(* links row of another user that carries an embedding, and at most 200    *)
(* corpus rows are loaded and ranked.                                      *)
C24_CorpusOfOthers ==
    SimilarityAnswered
    => /\ \A k \in 1..Len(RecsOf(sent[1])) :
             \E i \in ForeignEmbedded : RecordOf(links[i]) = RecsOf(sent[1])[k]
       /\ Len(allLinks.rows) <= CorpusLimit

(* The table holds an embedded row of the user and more rows of others     *)
(* than the limit; the limit was applied and recommendations returned.     *)
C24_Witness ==
    /\ SimilarityAnswered
    /\ Len(RecsOf(sent[1])) = TopK
    /\ \E i \in 1..Len(links) :
          links[i].user_id = userId /\ links[i].embedding # NoEmbedding
    /\ Cardinality(ForeignEmbedded) > CorpusLimit
    /\ Len(allLinks.rows) = CorpusLimit

(* C25: the style summary given to the embed call or to the generate call  *)
(* is made of at most the first 10 saved items of the user.                *)
C25_SummaryOfTenItems == Len(summary) <= SummaryLimit

(* Every call of the second kind comes after a call of the first kind. *)
CallBefore(first, second) ==
    \A i \in 1..Len(calls) :
        calls[i] = second => \E j \in 1..(i - 1) : calls[j] = first

(* C26: the saved-items read precedes the embed call, the embed call       *)
(* precedes the corpus read, the candidates are formatted before the       *)
(* insert is issued, recommendations are sent only once the insert has     *)
(* been issued, and no external call is made after a response.             *)
C26_StepsInOrder ==
    [][/\ CallBefore("select links", "embed")'
       /\ CallBefore("embed", "select corpus")'
       /\ (calls' # calls /\ calls'[Len(calls')] = "insert")
          => (Len(recs) > 0 /\ recs' = recs /\ sent = <<>>)
       /\ (sent' # sent /\ Len(RecsOf(sent'[Len(sent')])) > 0)
          => CountOf("insert")' = 1
       /\ sent # <<>> => calls' = calls]_vars

(* A request of the similarity path that made every call and was answered  *)
(* with recommendations                                                    *)
C26_Witness ==
    /\ pc = "done"
    /\ calls = <<"select links", "embed", "select corpus", "insert">>
    /\ Len(sent) = 1
    /\ sent[1].status = 200
    /\ Len(RecsOf(sent[1])) > 0

(* C27: after a successful request whose insert succeeded, the rows of the *)
(* recommendations table correspond one to one and in order to the         *)
(* returned recommendations, with the same url, title, brand, price,       *)
(* image_url and reason.                                                   *)
C27_RowsMatchResponse ==
    (pc = "done" /\ Len(sent) = 1 /\ sent[1].status = 200 /\ insertResult = "ok")
    => LET returned == RecsOf(sent[1])
       IN  /\ Len(recommendations) = Len(returned)
           /\ \A i \in 1..Len(returned) :
                 /\ recommendations[i].url = returned[i].url
                 /\ recommendations[i].title = returned[i].title
                 /\ recommendations[i].brand = returned[i].brand
                 /\ recommendations[i].price = returned[i].price
                 /\ recommendations[i].image_url = returned[i].image_url
                 /\ recommendations[i].reason = returned[i].reason

(* The request was answered with an error status. *)
AnsweredError == pc = "done" /\ Len(sent) = 1 /\ sent[1].status \in {400, 500}

(* C28: a request that ends with a 400 or 500 response has issued no       *)
(* insert and leaves the recommendations table as it was.                  *)
C28_ErrorLeavesTableUnchanged ==
    AnsweredError => (recommendations = <<>> /\ CountOf("insert") = 0)

(* An error answer of a request that had recommendations to offer: the     *)
(* generate call of the empty-corpus fallback failed after the reads.      *)
C28_Witness ==
    /\ AnsweredError
    /\ sent[1].status = 500
    /\ CountOf("generate") = 1
    /\ recommendations = <<>>

(* The score is the number 1. *)
IsOne(s) == ~IsNaN(s) /\ s.dot > 0 /\ s.dot * s.dot = s.a2 * s.b2

(* The item points in a direction other than that of the query. *)
OtherDirection(item) == ~IsNaN(item.similarity) /\ ~IsOne(item.similarity)

(* C30: cosineSimilarity(a, a) is 1 for a non-zero vector a, no item       *)
(* scores more, and in the ranking an item whose embedding equals the      *)
(* query is never below an item with a different direction.                *)
C30_SelfIsMaximal ==
    /\ selfScore # NoScore => IsOne(selfScore)
    /\ \A i \in 1..Len(ranking) :
          IsNaN(ranking[i].similarity)
          \/ ~ScoreLess(cosineSimilarity(queryVec, queryVec), ranking[i].similarity)
    /\ \A i, j \in 1..Len(ranking) :
          (i < j /\ ranking[j].item.embedding = queryVec) => ~OtherDirection(ranking[i])

====
